---- MODULE Spec2Model ----
(***************************************************************************)
(* Model of datasets.py: the PhysioNet Challenge 2018 (PC18) dataset glue. *)
(*                                                                         *)
(*   SpecConv     convert_wfdb_anns_to_mne_annotations, one loop           *)
(*                iteration per step                                       *)
(*   SpecUpdate   update_pc18_sleep_records                                *)
(*   SpecFetch    fetch_pc18_data over the tables update_pc18_sleep_records*)
(*                writes                                                   *)
(*   SpecPC18     PC18.__init__ and PC18._load_raw, sequential and         *)
(*                parallel                                                 *)
(*                                                                         *)
(* Strings the code inspects (file names, record names, annotation notes)  *)
(* are sequences of tokens, so that startswith / endswith / split are      *)
(* computed, not assumed.  Times are exact rationals <<num, den>>.         *)
(***************************************************************************)
EXTENDS Integers, Sequences, FiniteSets, TLC

VARIABLES
    \* convert_wfdb_anns_to_mne_annotations
    annots,           \* the wfdb Annotation: [sample, chan, aux_note, fs]
    cpc,              \* position in the converter
    chs_iter,         \* channels of ann_chs still to be iterated, in order
    chs_done,         \* channels already iterated, in order
    onsets,           \* annots.sample / annots.fs
    new_onset,
    new_duration,
    new_description,
    mne_annots,       \* <<>> until returned, then <<the arguments given to mne.Annotations>>
    \* update_pc18_sleep_records
    sha_train,        \* lines of training_SHA1SUMS: [sha, fname]
    sha_test,         \* lines of test_SHA1SUMS
    info_csv,         \* rows of age-sex.csv: [Record, Age, Sex]
    upc,              \* position in update_pc18_sleep_records
    records_csv,      \* rows of sleep_records.csv
    \* fetch_pc18_data
    records,          \* sleep_records.csv as read at line 130
    subjects,         \* the requested subjects
    fpc,              \* "start", "returned" or "raised" (IndexError)
    fnames,           \* the returned list of [psg, header, arousal] paths
    \* PC18.__init__ and PC18._load_raw
    subject_ids_arg,  \* the subject_ids argument: [kind, ids]
    ppc,              \* position in PC18.__init__
    subject_ids,      \* subject_ids after lines 233-238
    fetch_arg,        \* what fetch_pc18_data was called with
    paths,            \* line 239
    info_df,          \* self.info_df, line 241
    n_jobs,
    preproc,          \* TRUE when a list of preprocessors is given
    windower,         \* TRUE when a windower is given
    tasks,            \* the _load_raw calls of lines 244-252, one per zip pair
    finished,         \* the calls that returned, in order of completion
    all_base_ds       \* the list handed to BaseConcatDataset, line 253

convVars == <<annots, cpc, chs_iter, chs_done, onsets, new_onset, new_duration,
              new_description, mne_annots>>

updVars == <<sha_train, sha_test, info_csv, upc, records_csv>>

fetchVars == <<records, subjects, fpc, fnames>>

pcVars == <<subject_ids_arg, ppc, subject_ids, fetch_arg, paths, info_df, n_jobs,
            preproc, windower, tasks, finished, all_base_ds>>

vars == <<convVars, updVars, fetchVars, pcVars>>

(***************************************************************************)
(* Each specification runs one part of the program; the variables of the   *)
(* other parts stay at these values.                                       *)
(***************************************************************************)
ConvIdle ==
    /\ annots = [sample |-> <<>>, chan |-> <<>>, aux_note |-> <<>>, fs |-> 1]
    /\ cpc = "idle"
    /\ chs_iter = <<>>
    /\ chs_done = <<>>
    /\ onsets = <<>>
    /\ new_onset = <<>>
    /\ new_duration = <<>>
    /\ new_description = <<>>
    /\ mne_annots = <<>>

UpdIdle ==
    /\ sha_train = <<>>
    /\ sha_test = <<>>
    /\ info_csv = <<>>
    /\ upc = "idle"
    /\ records_csv = <<>>

FetchIdle ==
    /\ records = <<>>
    /\ subjects = <<>>
    /\ fpc = "idle"
    /\ fnames = <<>>

PCIdle ==
    /\ subject_ids_arg = [kind |-> "None", ids |-> <<>>]
    /\ ppc = "idle"
    /\ subject_ids = <<>>
    /\ fetch_arg = <<>>
    /\ paths = <<>>
    /\ info_df = <<>>
    /\ n_jobs = 1
    /\ preproc = FALSE
    /\ windower = FALSE
    /\ tasks = <<>>
    /\ finished = <<>>
    /\ all_base_ds = <<>>

(***************************************************************************)
(* Generic helpers                                                         *)
(***************************************************************************)
SeqsUpTo(S, n) == UNION {[1..k -> S] : k \in 0..n}

Range(s) == {s[i] : i \in DOMAIN s}

Perms(S) == {p \in [1..Cardinality(S) -> S] : Range(p) = S}

\* Python's str.startswith / str.endswith on token sequences
StartsWith(s, p) == Len(s) >= Len(p) /\ SubSeq(s, 1, Len(p)) = p
EndsWith(s, p) == Len(s) >= Len(p) /\ SubSeq(s, Len(s) - Len(p) + 1, Len(s)) = p

\* exact rationals <<num, den>>, den > 0
RatSub(x, y) == <<x[1] * y[2] - y[1] * x[2], x[2] * y[2]>>
RatEq(x, y) == x[1] * y[2] = y[1] * x[2]
RatPos(x) == x[1] > 0

(***************************************************************************)
(* convert_wfdb_anns_to_mne_annotations                                    *)
(***************************************************************************)
MaxAnns == 3
SampleValues == {0, 1, 2}
ChanValues == {0, 1}
NoteValues == {<<"(", "arousal">>, <<"arousal", ")">>, <<"W">>}
FsValues == {2}

AnnotsDomain(n) ==
    {[sample |-> [i \in DOMAIN a |-> a[i][1]],
      chan |-> [i \in DOMAIN a |-> a[i][2]],
      aux_note |-> [i \in DOMAIN a |-> a[i][3]],
      fs |-> fs] :
        a \in SeqsUpTo(SampleValues \X ChanValues \X NoteValues, n),
        fs \in FsValues}

\* numpy boolean-mask indexing: arr[mask]
RECURSIVE MaskSelect(_, _)
MaskSelect(arr, mask) ==
    IF arr = <<>> THEN <<>>
    ELSE (IF Head(mask) THEN <<Head(arr)>> ELSE <<>>)
             \o MaskSelect(Tail(arr), Tail(mask))

\* np.diff
NpDiff(a) == [i \in 1..(Len(a) - 1) |-> RatSub(a[i + 1], a[i])]

ChanMask(a, ch) == [i \in DOMAIN a.chan |-> a.chan[i] = ch]

\* mutant: the channel mask is forgotten
ChOnsets_unmasked(a, ons, ch) == ons

ChOnsets(a, ons, ch) == MaskSelect(ons, ChanMask(a, ch))

ChDescs(a, ch) == MaskSelect(a.aux_note, ChanMask(a, ch))

IsBeginEnd(ch_descs) ==
    \A i \in DOMAIN ch_descs :
        StartsWith(ch_descs[i], <<"(">>) \/ EndsWith(ch_descs[i], <<")">>)

ChDurations(ch_onsets) == NpDiff(ch_onsets) \o <<(<<30, 1>>)>>

\* mutant: the assertion admits zero durations
DurationsOk_nonneg(ch_durations) == \A i \in DOMAIN ch_durations : ch_durations[i][1] >= 0

DurationsOk(ch_durations) == \A i \in DOMAIN ch_durations : RatPos(ch_durations[i])

ConvInit ==
    /\ annots \in AnnotsDomain(MaxAnns)
    /\ cpc = "start"
    /\ chs_iter = <<>>
    /\ chs_done = <<>>
    /\ onsets = <<>>
    /\ new_onset = <<>>
    /\ new_duration = <<>>
    /\ new_description = <<>>
    /\ mne_annots = <<>>

\* lines 172-174; the iteration order of a Python set is not specified
ConvBegin ==
    /\ cpc = "start"
    /\ \E order \in Perms(Range(annots.chan)) : chs_iter' = order
    /\ onsets' = [i \in DOMAIN annots.sample |-> <<annots.sample[i], annots.fs>>]
    /\ new_onset' = <<>>
    /\ new_duration' = <<>>
    /\ new_description' = <<>>
    /\ cpc' = "loop"
    /\ UNCHANGED <<annots, chs_done, mne_annots>>
    /\ UNCHANGED <<updVars, fetchVars, pcVars>>

\* one iteration of the for loop, lines 175-188
ConvChannel ==
    /\ cpc = "loop"
    /\ chs_iter # <<>>
    /\ LET ch == Head(chs_iter)
           ch_onsets == ChOnsets(annots, onsets, ch)
           ch_descs == ChDescs(annots, ch)
           ch_durations == ChDurations(ch_onsets)
       IN  /\ chs_iter' = Tail(chs_iter)
           /\ chs_done' = Append(chs_done, ch)
           /\ IF IsBeginEnd(ch_descs)
              THEN /\ cpc' = "loop"
                   /\ UNCHANGED <<new_onset, new_duration, new_description>>
              ELSE IF ~DurationsOk(ch_durations)
              THEN /\ cpc' = "raised"
                   /\ UNCHANGED <<new_onset, new_duration, new_description>>
              ELSE /\ cpc' = "loop"
                   /\ new_onset' = new_onset \o ch_onsets
                   /\ new_duration' = new_duration \o ch_durations
                   /\ new_description' = new_description \o ch_descs
    /\ UNCHANGED <<annots, onsets, mne_annots>>
    /\ UNCHANGED <<updVars, fetchVars, pcVars>>

\* lines 190-193
ConvReturn ==
    /\ cpc = "loop"
    /\ chs_iter = <<>>
    /\ mne_annots' = <<[onset |-> new_onset, duration |-> new_duration,
                        description |-> new_description]>>
    /\ cpc' = "returned"
    /\ UNCHANGED <<annots, chs_iter, chs_done, onsets, new_onset, new_duration,
                   new_description>>
    /\ UNCHANGED <<updVars, fetchVars, pcVars>>

ConvNext == ConvBegin \/ ConvChannel \/ ConvReturn

SpecConvInit == ConvInit /\ UpdIdle /\ FetchIdle /\ PCIdle

SpecConv == SpecConvInit /\ [][ConvNext]_vars

(***************************************************************************)
(* update_pc18_sleep_records                                               *)
(***************************************************************************)
MaxTrain == 2
MaxTest == 1

Rec_tr == <<"tr", "03-0005">>
Rec_te == <<"te", "03-0004">>

\* <Record>/<Record><suffix>
RecFile(rec, suffix) == rec \o <<"/">> \o rec \o suffix

TrainFiles ==
    {RecFile(Rec_tr, <<".", "hea">>), RecFile(Rec_tr, <<".", "mat">>),
     RecFile(Rec_tr, <<".", "arousal">>),
     RecFile(Rec_tr, <<"-", "arousal", ".", "mat">>),
     RecFile(Rec_te, <<".", "mat">>), <<"RECORDS">>}

TestFiles ==
    {RecFile(Rec_te, <<".", "hea">>), RecFile(Rec_te, <<".", "mat">>),
     RecFile(Rec_te, <<"-", "arousal", ".", "mat">>),
     RecFile(Rec_tr, <<".", "hea">>), <<"RECORDS">>}

\* the checksum of a file of a listing: an opaque value that identifies it
ShaOf(listing, fname) == <<"sha1", listing>> \o fname

Listings(listing, files, n) ==
    {[i \in DOMAIN fs |-> [sha |-> ShaOf(listing, fs[i]), fname |-> fs[i]]] :
        fs \in SeqsUpTo(files, n)}

InfoRow(rec) == [Record |-> rec, Age |-> IF rec = Rec_tr THEN 55 ELSE 40,
                 Sex |-> IF rec = Rec_tr THEN "m" ELSE "F"]

\* the sequences without repetition over the elements of S
RECURSIVE Arrangements(_)
Arrangements(S) ==
    IF S = {} THEN {<<>>}
    ELSE UNION {{<<x>> \o p : p \in Arrangements(S \ {x})} : x \in S}

\* age-sex.csv lists each record once
InfoTables ==
    UNION {{[i \in DOMAIN p |-> InfoRow(p[i])] : p \in Arrangements(S)} :
              S \in SUBSET {Rec_tr, Rec_te}}

\* str.split(sep): the pieces between the separator tokens
RECURSIVE StrSplit(_, _)
StrSplit(s, sep) ==
    IF \A i \in DOMAIN s : s[i] # sep THEN <<s>>
    ELSE LET k == CHOOSE i \in DOMAIN s :
                     s[i] = sep /\ \A j \in 1..(i - 1) : s[j] # sep
         IN  <<SubSeq(s, 1, k - 1)>> \o StrSplit(SubSeq(s, k + 1, Len(s)), sep)

\* lines 36-38: the Split column and pd.concat
WithSplit(df, split) ==
    [i \in DOMAIN df |-> [sha |-> df[i].sha, fname |-> df[i].fname, Split |-> split]]

\* lines 39-41
SelectRecords(row) ==
    /\ StartsWith(row.fname, <<"tr">>) \/ StartsWith(row.fname, <<"te">>)
    /\ ~EndsWith(row.fname, <<"arousal", ".", "mat">>)

\* lines 43-44
ShaRow(row) ==
    [sha |-> row.sha, Split |-> row.Split,
     Record |-> StrSplit(row.fname, "/")[1],
     fname |-> <<row.Split, "/">> \o row.fname]

\* lines 32-44
ShaFrame(train, test) ==
    LET sha_df == WithSplit(train, "training") \o WithSplit(test, "test")
        selected == MaskSelect(sha_df, [i \in DOMAIN sha_df |-> SelectRecords(sha_df[i])])
    IN  [i \in DOMAIN selected |-> ShaRow(selected[i])]

\* line 50
SexMap(sex) ==
    IF sex = "F" THEN "female" ELSE IF sex \in {"M", "m"} THEN "male" ELSE "NaN"

\* lines 47-51: reset_index numbers the rows from 0
InfoFrame(info) ==
    [i \in DOMAIN info |->
        [Subject |-> i - 1, Record |-> info[i].Record, Age |-> info[i].Age,
         Sex |-> SexMap(info[i].Sex)]]

\* lines 54-56
RecordTypeOf(fname) ==
    LET pieces == StrSplit(fname, ".")
    IN  IF Len(pieces) < 2 THEN "NaN"
        ELSE IF pieces[2] = <<"hea">> THEN "Header"
        ELSE IF pieces[2] = <<"mat">> THEN "PSG"
        ELSE IF pieces[2] = <<"arousal">> THEN "Arousal"
        ELSE "NaN"

MergedRow(l, r) ==
    [Subject |-> r.Subject, Record |-> l.Record, RecordType |-> RecordTypeOf(l.fname),
     Split |-> l.Split, Age |-> r.Age, Sex |-> r.Sex, sha |-> l.sha, fname |-> l.fname]

\* line 52: inner join on Record, in the order of the left rows
RECURSIVE Merge(_, _)
Merge(left, right) ==
    IF left = <<>> THEN <<>>
    ELSE LET l == Head(left)
             SameRecord(r) == r.Record = l.Record
             matches == SelectSeq(right, SameRecord)
         IN  [i \in DOMAIN matches |-> MergedRow(l, matches[i])]
                 \o Merge(Tail(left), right)

\* mutant: the rows are not sorted
SortValues_unsorted(rows) == {rows}

\* line 58: sort_values(by='Subject') with the default, unstable quicksort:
\* every order of the rows with non-decreasing Subject
RECURSIVE SortValues(_)
SortValues(rows) ==
    IF rows = <<>> THEN {<<>>}
    ELSE LET lo == CHOOSE m \in {rows[i].Subject : i \in DOMAIN rows} :
                       \A i \in DOMAIN rows : m <= rows[i].Subject
             IsLo(r) == r.Subject = lo
             NotLo(r) == r.Subject # lo
             first == SelectSeq(rows, IsLo)
             rest == SelectSeq(rows, NotLo)
         IN  {[i \in DOMAIN p |-> first[p[i]]] \o q :
                  p \in Arrangements(DOMAIN first), q \in SortValues(rest)}

\* lines 28-58
UpdateFrames(train, test, info) == SortValues(Merge(ShaFrame(train, test), InfoFrame(info)))

UpdInit ==
    /\ sha_train \in Listings("training", TrainFiles, MaxTrain)
    /\ sha_test \in Listings("test", TestFiles, MaxTest)
    /\ info_csv \in InfoTables
    /\ upc = "start"
    /\ records_csv = <<>>

\* the whole function, to_csv (line 61) included.  When no checksum entry is
\* selected, or none of the selected records is in age-sex.csv, the frame
\* that str.split(expand=True) returns at line 43 or 54 is empty: depending
\* on the pandas version it has no column to index (KeyError, nothing is
\* written) or the empty table is written
update_pc18_sleep_records ==
    /\ upc = "start"
    /\ IF Merge(ShaFrame(sha_train, sha_test), InfoFrame(info_csv)) = <<>>
       THEN /\ records_csv' = <<>>
            /\ upc' \in {"raised", "written"}
       ELSE /\ records_csv' \in UpdateFrames(sha_train, sha_test, info_csv)
            /\ upc' = "written"
    /\ UNCHANGED <<sha_train, sha_test, info_csv>>
    /\ UNCHANGED <<convVars, fetchVars, pcVars>>

UpdNext == update_pc18_sleep_records

SpecUpdateInit == UpdInit /\ ConvIdle /\ FetchIdle /\ PCIdle

SpecUpdate == SpecUpdateInit /\ [][UpdNext]_vars

(***************************************************************************)
(* fetch_pc18_data                                                         *)
(***************************************************************************)
MaxSubjects == 2

\* Python's None, where a path is expected
None == <<>>

\* _fetch_one (mne): checks or downloads the file and returns its local path
FetchOne(fname, sha) == <<"pc18-sleep-data", "/">> \o fname

\* lines 131-133: the rows of one record type, in table order
OfType(recs, type) ==
    LET IsType(r) == r.RecordType = type
    IN  SelectSeq(recs, IsType)

\* np.where(df['Subject'] == subject)[0], as 1-based positions
WhereSubject(df, subject) ==
    LET Hit(i) == df[i].Subject = subject
    IN  SelectSeq([i \in DOMAIN df |-> i], Hit)

\* line 145
IsTraining(row) == row.Split = "training"

\* line 143: the header row has the position of the PSG row
HeaderIdx(idx) == idx

\* lines 141-153, one iteration of the inner loop; .iloc[idx] past the end
\* and [0][0] on an empty np.where raise IndexError
FetchRow(psg_records, hea_records, arousal_records, subject, idx) ==
    LET train == WhereSubject(arousal_records, subject)
    IN  IF HeaderIdx(idx) > Len(hea_records)
        THEN [ok |-> FALSE, fnames |-> <<>>]
        ELSE IF IsTraining(psg_records[idx])
        THEN IF train = <<>>
             THEN [ok |-> FALSE, fnames |-> <<>>]
             ELSE [ok |-> TRUE, fnames |->
                     << <<FetchOne(psg_records[idx].fname, psg_records[idx].sha),
                          FetchOne(hea_records[HeaderIdx(idx)].fname,
                                   hea_records[HeaderIdx(idx)].sha),
                          FetchOne(arousal_records[train[1]].fname,
                                   arousal_records[train[1]].sha)>> >>]
        ELSE [ok |-> TRUE, fnames |->
                << <<FetchOne(psg_records[idx].fname, psg_records[idx].sha),
                     FetchOne(hea_records[HeaderIdx(idx)].fname,
                              hea_records[HeaderIdx(idx)].sha),
                     None>> >>]

\* mutant: the later triples are put in front of the earlier ones
Then_prepend(r1, r2) ==
    IF ~r1.ok THEN r1
    ELSE IF ~r2.ok THEN r2
    ELSE [ok |-> TRUE, fnames |-> r2.fnames \o r1.fnames]

\* two consecutive stretches of the loops: an IndexError in the first ends the call
Then(r1, r2) ==
    IF ~r1.ok THEN r1
    ELSE IF ~r2.ok THEN r2
    ELSE [ok |-> TRUE, fnames |-> r1.fnames \o r2.fnames]

\* lines 140-153: the inner loop over idxs[lo..hi]
RECURSIVE FetchRows(_, _, _, _, _, _, _)
FetchRows(psg, hea, aro, subject, idxs, lo, hi) ==
    IF lo > hi THEN [ok |-> TRUE, fnames |-> <<>>]
    ELSE IF lo = hi THEN FetchRow(psg, hea, aro, subject, idxs[lo])
    ELSE LET mid == (lo + hi) \div 2
         IN  Then(FetchRows(psg, hea, aro, subject, idxs, lo, mid),
                  FetchRows(psg, hea, aro, subject, idxs, mid + 1, hi))

\* lines 139-153: the outer loop over subjs[lo..hi]
RECURSIVE FetchSubjects(_, _, _, _, _, _)
FetchSubjects(psg, hea, aro, subjs, lo, hi) ==
    IF lo > hi THEN [ok |-> TRUE, fnames |-> <<>>]
    ELSE IF lo = hi
    THEN LET idxs == WhereSubject(psg, subjs[lo])
         IN  FetchRows(psg, hea, aro, subjs[lo], idxs, 1, Len(idxs))
    ELSE LET mid == (lo + hi) \div 2
         IN  Then(FetchSubjects(psg, hea, aro, subjs, lo, mid),
                  FetchSubjects(psg, hea, aro, subjs, mid + 1, hi))

\* lines 130-155
FetchPC18Data(recs, subjs) ==
    FetchSubjects(OfType(recs, "PSG"), OfType(recs, "Header"), OfType(recs, "Arousal"),
                  subjs, 1, Len(subjs))

MaxTrainListed == 3
MaxTestListed == 2

\* listings of the files of one training and one test record
FetchTrainFiles == {RecFile(Rec_tr, <<".", ext>>) : ext \in {"hea", "mat", "arousal"}}
FetchTestFiles == {RecFile(Rec_te, <<".", ext>>) : ext \in {"hea", "mat"}}

FetchInfos ==
    {[i \in DOMAIN p |-> InfoRow(p[i])] : p \in Arrangements({Rec_tr, Rec_te})}

\* sleep_records.csv is what update_pc18_sleep_records wrote
FetchTables(n_train, n_test) ==
    UNION {UpdateFrames(train, test, info) :
              train \in Listings("training", FetchTrainFiles, n_train),
              test \in Listings("test", FetchTestFiles, n_test),
              info \in FetchInfos}

FetchInit ==
    /\ records \in FetchTables(MaxTrainListed, MaxTestListed)
    /\ subjects = <<>>
    /\ fpc = "start"
    /\ fnames = <<>>

\* the whole call
fetch_pc18_data ==
    /\ fpc = "start"
    /\ \E subjs \in SeqsUpTo(0..1, MaxSubjects) :
          LET res == FetchPC18Data(records, subjs)
          IN  /\ subjects' = subjs
              /\ fnames' = res.fnames
              /\ fpc' = IF res.ok THEN "returned" ELSE "raised"
    /\ UNCHANGED records
    /\ UNCHANGED <<convVars, updVars, pcVars>>

FetchNext == fetch_pc18_data

SpecFetchInit == FetchInit /\ ConvIdle /\ UpdIdle /\ PCIdle

SpecFetch == SpecFetchInit /\ [][FetchNext]_vars

(***************************************************************************)
(* PC18.__init__ and PC18._load_raw                                        *)
(***************************************************************************)
\* range(1983), line 234
AllStop == 1983
\* range(989, 1983), line 236
TrainingStart == 989
TrainingStop == 1983
\* range(989), line 238
TestStop == 989

\* Python's range(a, b) as a list
PyRange(a, b) == [i \in 1..(b - a) |-> a + i - 1]

\* mutant: the test range is one subject short
ResolveSubjectIds_short(arg) ==
    IF arg.kind = "None" THEN PyRange(0, AllStop)
    ELSE IF arg.kind = "training" THEN PyRange(TrainingStart, TrainingStop)
    ELSE IF arg.kind = "test" THEN PyRange(0, TestStop - 1)
    ELSE arg.ids

\* lines 233-238
ResolveSubjectIds(arg) ==
    IF arg.kind = "None" THEN PyRange(0, AllStop)
    ELSE IF arg.kind = "training" THEN PyRange(TrainingStart, TrainingStop)
    ELSE IF arg.kind = "test" THEN PyRange(0, TestStop)
    ELSE arg.ids

\* the records the model lists files of: the last test and the first training
\* subject of the documented numbering (test 0-988, training 989-1982)
Rec_988 == <<"te", "988">>
Rec_989 == <<"tr", "989">>

RecordOfSubject(n) ==
    IF n < TestStop THEN <<"te", ToString(n)>> ELSE <<"tr", ToString(n)>>

\* age-sex.csv: one row per subject
PC18Info ==
    [i \in 1..AllStop |->
        [Record |-> RecordOfSubject(i - 1), Age |-> 40 + (i % 3),
         Sex |-> IF i % 2 = 0 THEN "F" ELSE "M"]]

PC18TrainListings ==
    {[i \in DOMAIN fs |-> [sha |-> ShaOf("training", RecFile(Rec_989, <<".", fs[i]>>)),
                           fname |-> RecFile(Rec_989, <<".", fs[i]>>)]] :
        fs \in {<<>>, <<"hea">>, <<"mat">>, <<"hea", "mat">>, <<"hea", "arousal">>,
                <<"hea", "mat", "arousal">>}}

PC18TestListings ==
    {[i \in DOMAIN fs |-> [sha |-> ShaOf("test", RecFile(Rec_988, <<".", fs[i]>>)),
                           fname |-> RecFile(Rec_988, <<".", fs[i]>>)]] :
        fs \in {<<>>, <<"hea">>, <<"hea", "mat">>, <<"hea", "mat", "hea", "mat">>}}

\* sleep_records.csv is what update_pc18_sleep_records wrote
PC18Tables ==
    UNION {UpdateFrames(train, test, PC18Info) :
              train \in PC18TrainListings, test \in PC18TestListings}

\* op.basename
Basename(path) ==
    LET seps == {i \in DOMAIN path : path[i] = "/"}
    IN  IF seps = {} THEN path
        ELSE SubSeq(path, (CHOOSE i \in seps : \A j \in seps : j <= i) + 1, Len(path))

\* op.splitext(path)[0]
SplitextRoot(path) ==
    LET base == Basename(path)
        dots == {i \in DOMAIN base : base[i] = "." /\ i > 1}
    IN  IF dots = {} THEN path
        ELSE SubSeq(path, 1, Len(path) - Len(base)
                                 + (CHOOSE i \in dots : \A j \in dots : j <= i) - 1)

\* zip(subject_ids, paths)
Zip(ids, ps) ==
    [i \in 1..(IF Len(ids) < Len(ps) THEN Len(ids) ELSE Len(ps)) |-> <<ids[i], ps[i]>>]

NoDesc == [subject |-> -1, record |-> <<>>, split |-> "", age |-> -1, sex |-> ""]

NoOut == [record |-> None, annotations |-> None, preprocessed |-> FALSE,
          description |-> NoDesc, wrapped |-> FALSE, windowed |-> FALSE]

NewTask(subject_id, p) ==
    [subj_nb |-> subject_id, raw_fname |-> p[1], arousal_fname |-> p[3],
     pos |-> "read", log |-> <<>>, desc |-> NoDesc, out |-> NoOut]

\* mutant: the preprocessors are applied last
LoadRawOrder_preprocLast == <<"read", "annots", "desc", "wrap", "window", "preproc">>

\* the blocks of _load_raw in source order: lines 265-272, 275-281, 283-299,
\* 301-302, 304, 306-308
LoadRawOrder == <<"read", "annots", "desc", "preproc", "wrap", "window">>

StepAfter(pos) ==
    LET k == CHOOSE i \in DOMAIN LoadRawOrder : LoadRawOrder[i] = pos
    IN  IF k = Len(LoadRawOrder) THEN "returned" ELSE LoadRawOrder[k + 1]

Started(t) == t.log # <<>>

Active(t) == Started(t) /\ t.pos # "returned"

\* the list comprehension evaluates the calls one after the other; joblib
\* dispatches them in order to at most n_jobs workers
CanStep(i) ==
    /\ ppc = "loading"
    /\ i \in DOMAIN tasks
    /\ Started(tasks[i])
       \/ /\ \A j \in 1..(i - 1) : Started(tasks[j])
          /\ Cardinality({j \in DOMAIN tasks : Active(tasks[j])})
                 < (IF n_jobs = 1 THEN 1 ELSE n_jobs)

\* lines 284-291
DescOf(info, subj_nb, raw_fname) ==
    LET record_name == Basename(SplitextRoot(raw_fname))
        IsRecord(r) == r.Record = record_name
        record_info == SelectSeq(info, IsRecord)[1]
    IN  [subject |-> subj_nb,
         record |-> record_info.Record,
         split |-> IF StartsWith(record_info.Record, <<"tr">>) THEN "training"
                   ELSE IF StartsWith(record_info.Record, <<"te">>) THEN "test"
                   ELSE "unknown",
         age |-> record_info.Age,
         sex |-> record_info.Sex]

SubjectIdsArgs ==
    {[kind |-> k, ids |-> <<>>] : k \in {"None", "training", "test"}}
        \cup {[kind |-> "list", ids |-> l] : l \in SeqsUpTo({988, 989}, MaxSubjects)}

NJobsValues == {1, 2}

PCInit ==
    /\ subject_ids_arg \in SubjectIdsArgs
    /\ ppc = "start"
    /\ subject_ids = <<>>
    /\ fetch_arg = <<>>
    /\ paths = <<>>
    /\ info_df = <<>>
    /\ n_jobs = 1
    /\ preproc = FALSE
    /\ windower = FALSE
    /\ tasks = <<>>
    /\ finished = <<>>
    /\ all_base_ds = <<>>

\* lines 233-238
PCResolve ==
    /\ ppc = "start"
    /\ subject_ids' = ResolveSubjectIds(subject_ids_arg)
    /\ ppc' = "resolved"
    /\ UNCHANGED <<subject_ids_arg, fetch_arg, paths, info_df, n_jobs, preproc, windower,
                   tasks, finished, all_base_ds>>
    /\ UNCHANGED <<convVars, updVars, fetchVars>>

\* line 239; fetch_pc18_data reads sleep_records.csv, and an IndexError in it
\* ends the construction
PCFetch ==
    /\ ppc = "resolved"
    /\ fetch_arg' = subject_ids
    /\ \E recs \in PC18Tables :
          LET res == FetchPC18Data(recs, subject_ids)
          IN  /\ paths' = res.fnames
              /\ ppc' = IF res.ok THEN "fetched" ELSE "failed"
    /\ UNCHANGED <<subject_ids_arg, subject_ids, info_df, n_jobs, preproc, windower,
                   tasks, finished, all_base_ds>>
    /\ UNCHANGED <<convVars, updVars, fetchVars>>

\* lines 241-252 up to the first call: info_df is read, and the remaining
\* constructor arguments are looked at for the first time
PCReadInfo ==
    /\ ppc = "fetched"
    /\ info_df' = PC18Info
    /\ n_jobs' \in NJobsValues
    /\ preproc' \in BOOLEAN
    /\ windower' \in BOOLEAN
    /\ tasks' = [i \in DOMAIN Zip(subject_ids, paths) |->
                    NewTask(Zip(subject_ids, paths)[i][1], Zip(subject_ids, paths)[i][2])]
    /\ ppc' = "loading"
    /\ UNCHANGED <<subject_ids_arg, subject_ids, fetch_arg, paths, finished, all_base_ds>>
    /\ UNCHANGED <<convVars, updVars, fetchVars>>

\* one block of one _load_raw call: the task is moved to the next block
Advance(i, log_entry, new_desc, new_out) ==
    /\ tasks' = [tasks EXCEPT ![i] =
                    [@ EXCEPT !.pos = StepAfter(tasks[i].pos),
                              !.log = @ \o log_entry,
                              !.desc = new_desc,
                              !.out = new_out]]
    /\ finished' = IF StepAfter(tasks[i].pos) = "returned"
                   THEN Append(finished, i) ELSE finished
    /\ UNCHANGED <<subject_ids_arg, ppc, subject_ids, fetch_arg, paths, info_df, n_jobs,
                   preproc, windower, all_base_ds>>
    /\ UNCHANGED <<convVars, updVars, fetchVars>>

\* lines 265-272
LoadRead ==
    \E i \in DOMAIN tasks :
        /\ CanStep(i)
        /\ tasks[i].pos = "read"
        /\ Advance(i, <<"read">>, tasks[i].desc,
                   [tasks[i].out EXCEPT !.record = SplitextRoot(tasks[i].raw_fname)])

\* lines 275-281
LoadAnnots ==
    \E i \in DOMAIN tasks :
        /\ CanStep(i)
        /\ tasks[i].pos = "annots"
        /\ IF tasks[i].arousal_fname # None
           THEN Advance(i, <<"annotate">>, tasks[i].desc,
                        [tasks[i].out EXCEPT !.annotations =
                            SplitextRoot(tasks[i].raw_fname) \o <<".", "arousal">>])
           ELSE Advance(i, <<>>, tasks[i].desc, tasks[i].out)

\* lines 283-299
LoadDesc ==
    \E i \in DOMAIN tasks :
        /\ CanStep(i)
        /\ tasks[i].pos = "desc"
        /\ Advance(i, <<"describe">>,
                   DescOf(info_df, tasks[i].subj_nb, tasks[i].raw_fname), tasks[i].out)

\* lines 301-302
LoadPreproc ==
    \E i \in DOMAIN tasks :
        /\ CanStep(i)
        /\ tasks[i].pos = "preproc"
        /\ IF preproc
           THEN Advance(i, <<"preprocess">>, tasks[i].desc,
                        [tasks[i].out EXCEPT !.preprocessed = TRUE])
           ELSE Advance(i, <<>>, tasks[i].desc, tasks[i].out)

\* line 304
LoadWrap ==
    \E i \in DOMAIN tasks :
        /\ CanStep(i)
        /\ tasks[i].pos = "wrap"
        /\ Advance(i, <<"wrap">>, tasks[i].desc,
                   [tasks[i].out EXCEPT !.description = tasks[i].desc, !.wrapped = TRUE])

\* lines 306-308
LoadWindow ==
    \E i \in DOMAIN tasks :
        /\ CanStep(i)
        /\ tasks[i].pos = "window"
        /\ IF windower
           THEN Advance(i, <<"window">>, tasks[i].desc,
                        [tasks[i].out EXCEPT !.windowed = TRUE])
           ELSE Advance(i, <<>>, tasks[i].desc, tasks[i].out)

\* mutant: the results are collected as the workers finish
ParallelResults_byCompletion(ts, fin) == [k \in DOMAIN fin |-> ts[fin[k]].out]

\* lines 249-252: joblib.Parallel returns the results in the order of the calls
ParallelResults(ts, fin) == [i \in DOMAIN ts |-> ts[i].out]

\* lines 244-247: the list comprehension collects each result as its call returns
SequentialResults(ts, fin) == [k \in DOMAIN fin |-> ts[fin[k]].out]

\* lines 243-253
PCCollect ==
    /\ ppc = "loading"
    /\ \A i \in DOMAIN tasks : tasks[i].pos = "returned"
    /\ all_base_ds' = IF n_jobs = 1 THEN SequentialResults(tasks, finished)
                      ELSE ParallelResults(tasks, finished)
    /\ ppc' = "done"
    /\ UNCHANGED <<subject_ids_arg, subject_ids, fetch_arg, paths, info_df, n_jobs,
                   preproc, windower, tasks, finished>>
    /\ UNCHANGED <<convVars, updVars, fetchVars>>

PCNext ==
    \/ PCResolve
    \/ PCFetch
    \/ PCReadInfo
    \/ LoadRead
    \/ LoadAnnots
    \/ LoadDesc
    \/ LoadPreproc
    \/ LoadWrap
    \/ LoadWindow
    \/ PCCollect

SpecPC18Init == PCInit /\ ConvIdle /\ UpdIdle /\ FetchIdle

SpecPC18 == SpecPC18Init /\ [][PCNext]_vars

(***************************************************************************)
(* Properties of the converter                                             *)
(***************************************************************************)
\* indices of the input annotations of channel ch, in input order
IdxOf(a, ch) ==
    LET OnCh(i) == a.chan[i] = ch
    IN  SelectSeq([i \in DOMAIN a.chan |-> i], OnCh)

\* a channel the code treats as sleep-stage-like: some note of it is neither
\* a '(event' begin marker nor an 'event)' end marker
StageLike(a, ch) ==
    \E i \in DOMAIN a.chan :
        /\ a.chan[i] = ch
        /\ ~(a.aux_note[i][1] = "(" \/ a.aux_note[i][Len(a.aux_note[i])] = ")")

StageOrder ==
    LET Stage(ch) == StageLike(annots, ch)
    IN  SelectSeq(chs_done, Stage)

\* number of annotations emitted before the block of the j-th channel of so
BlockOffset(a, so, j) ==
    Cardinality({i \in DOMAIN a.chan : \E m \in 1..(j - 1) : a.chan[i] = so[m]})

InputOnset(a, i) == <<a.sample[i], a.fs>>

HasNonIncreasing(a) ==
    \E ch \in Range(a.chan) :
        /\ StageLike(a, ch)
        /\ \E k \in 1..(Len(IdxOf(a, ch)) - 1) :
               a.sample[IdxOf(a, ch)[k + 1]] <= a.sample[IdxOf(a, ch)[k]]

\* C2: durations are computed per channel.  When the converter returns, the
\* emitted lists are the blocks of the sleep-stage-like channels in iteration
\* order; the k-th annotation of a block has onset sample_k/fs and duration
\* (next onset of the same channel) - (its own onset), the last one 30.
C2_PerChannelDurations ==
    cpc = "returned" =>
        LET e == mne_annots[1]
            so == StageOrder
            total == BlockOffset(annots, so, Len(so) + 1)
        IN  /\ Len(e.onset) = total
            /\ Len(e.duration) = total
            /\ \A j \in DOMAIN so :
                 LET idx == IdxOf(annots, so[j])
                     off == BlockOffset(annots, so, j)
                 IN  \A k \in DOMAIN idx :
                        /\ RatEq(e.onset[off + k], InputOnset(annots, idx[k]))
                        /\ IF k < Len(idx)
                           THEN RatEq(e.duration[off + k],
                                      RatSub(InputOnset(annots, idx[k + 1]),
                                             InputOnset(annots, idx[k])))
                           ELSE RatEq(e.duration[off + k], <<30, 1>>)

\* C2 witness: a returned conversion of a sleep-stage-like channel with two
\* annotations between which an annotation of another channel lies
C2_Witness ==
    /\ cpc = "returned"
    /\ \E ch \in Range(annots.chan) :
          /\ StageLike(annots, ch)
          /\ Len(IdxOf(annots, ch)) >= 2
          /\ \E i \in DOMAIN annots.chan :
                /\ annots.chan[i] # ch
                /\ IdxOf(annots, ch)[1] < i
                /\ i < IdxOf(annots, ch)[2]
                /\ annots.sample[i] # annots.sample[IdxOf(annots, ch)[1]]
                /\ annots.sample[i] # annots.sample[IdxOf(annots, ch)[2]]

\* C3 (as claimed): the whole annotation object is converted, the output has
\* as many entries as the input and every input annotation appears in it.
C3_WholeObjectConverted ==
    cpc = "returned" =>
        /\ Len(mne_annots[1].onset) = Len(annots.sample)
        /\ \A i \in DOMAIN annots.sample :
              \E n \in DOMAIN mne_annots[1].onset :
                  /\ n \in DOMAIN mne_annots[1].description
                  /\ RatEq(mne_annots[1].onset[n], InputOnset(annots, i))
                  /\ mne_annots[1].description[n] = annots.aux_note[i]

\* C9: a returned conversion has three lists of equal length and strictly
\* positive durations, and no sleep-stage-like channel of its input has equal
\* or decreasing consecutive onsets; a conversion that failed the 'Negative
\* duration' assertion has such a channel and has returned nothing.
C9_PositiveOrNothing ==
    /\ cpc = "returned" =>
          /\ Len(mne_annots[1].onset) = Len(mne_annots[1].duration)
          /\ Len(mne_annots[1].onset) = Len(mne_annots[1].description)
          /\ \A n \in DOMAIN mne_annots[1].duration :
                 mne_annots[1].duration[n][1] > 0 /\ mne_annots[1].duration[n][2] > 0
          /\ ~HasNonIncreasing(annots)
    /\ cpc = "raised" =>
          /\ mne_annots = <<>>
          /\ HasNonIncreasing(annots)

\* C9 witness: the assertion failed after an earlier channel had already been
\* collected, and nothing was returned
C9_Witness ==
    /\ cpc = "raised"
    /\ new_onset # <<>>
    /\ mne_annots = <<>>

(***************************************************************************)
(* Properties of update_pc18_sleep_records                                 *)
(***************************************************************************)
\* the directory part of a listed file name
RecordOfEntry(f) ==
    IF \A i \in DOMAIN f : f[i] # "/" THEN f
    ELSE SubSeq(f, 1, (CHOOSE i \in DOMAIN f :
                          f[i] = "/" /\ \A j \in 1..(i - 1) : f[j] # "/") - 1)

InInfo(rec) == \E k \in DOMAIN info_csv : info_csv[k].Record = rec

RowIndexOf(rec) == (CHOOSE k \in DOMAIN info_csv : info_csv[k].Record = rec) - 1

ToBeWritten(e) ==
    /\ e.fname[1] \in {"tr", "te"}
    /\ ~(Len(e.fname) >= 3
         /\ e.fname[Len(e.fname) - 2] = "arousal"
         /\ e.fname[Len(e.fname) - 1] = "."
         /\ e.fname[Len(e.fname)] = "mat")
    /\ InInfo(RecordOfEntry(e.fname))

WrittenFor(split, e) ==
    [sha |-> e.sha, Split |-> split, fname |-> <<split, "/">> \o e.fname,
     Subject |-> RowIndexOf(RecordOfEntry(e.fname))]

WrittenPart(row) ==
    [sha |-> row.sha, Split |-> row.Split, fname |-> row.fname, Subject |-> row.Subject]

\* C10: the written rows are exactly the checksum entries that start with
\* 'tr' or 'te', do not end with 'arousal.mat' and whose Record is in the
\* demographics table, each once, with its checksum, the Split of its
\* listing, fname prefixed with '<Split>/' and Subject the row index of its
\* Record; the rows are in non-decreasing Subject order.
C10_RecordsTable ==
    upc = "written" =>
        LET expected ==
                {WrittenFor("training", sha_train[i]) :
                    i \in {j \in DOMAIN sha_train : ToBeWritten(sha_train[j])}}
                \cup {WrittenFor("test", sha_test[i]) :
                    i \in {j \in DOMAIN sha_test : ToBeWritten(sha_test[j])}}
            written == {WrittenPart(records_csv[j]) : j \in DOMAIN records_csv}
        IN  /\ written = expected
            /\ \A x \in expected :
                  Cardinality({j \in DOMAIN records_csv : WrittenPart(records_csv[j]) = x})
                      = Cardinality({i \in DOMAIN sha_train :
                                        /\ ToBeWritten(sha_train[i])
                                        /\ WrittenFor("training", sha_train[i]) = x})
                        + Cardinality({i \in DOMAIN sha_test :
                                        /\ ToBeWritten(sha_test[i])
                                        /\ WrittenFor("test", sha_test[i]) = x})
            /\ \A j \in 1..(Len(records_csv) - 1) :
                  records_csv[j].Subject <= records_csv[j + 1].Subject

\* C10 witness: entries of both listings were written, one entry was left
\* out, and sorting moved a row of the test listing before a training row
C10_Witness ==
    /\ upc = "written"
    /\ Len(records_csv) >= 2
    /\ Len(records_csv) < Len(sha_train) + Len(sha_test)
    /\ records_csv[1].Split = "test"
    /\ records_csv[Len(records_csv)].Split = "training"
    /\ records_csv[1].Subject < records_csv[Len(records_csv)].Subject

(***************************************************************************)
(* Properties of fetch_pc18_data                                           *)
(***************************************************************************)
PsgRows == OfType(records, "PSG")

\* the pairs <<position in subjects, position among the PSG rows>> of the PSG
\* rows of the requested subjects, by request first and table order second
RequestedPsg ==
    LET n == Len(PsgRows)
        all == [k \in 1..(Len(subjects) * n) |-> <<((k - 1) \div n) + 1, ((k - 1) % n) + 1>>]
        Hit(pr) == PsgRows[pr[2]].Subject = subjects[pr[1]]
    IN  SelectSeq(all, Hit)

LocalPath(fname) == <<"pc18-sleep-data", "/">> \o fname

\* C1: the returned list has one [psg, header, arousal] triple per PSG row of
\* a requested subject, request by request in the order of the request, and
\* the arousal path of a triple is None exactly when the Split of its PSG row
\* is not 'training'.
C1_OneTriplePerPsgRow ==
    fpc = "returned" =>
        /\ Len(fnames) = Len(RequestedPsg)
        /\ \A k \in DOMAIN fnames :
              /\ Len(fnames[k]) = 3
              /\ fnames[k][1] = LocalPath(PsgRows[RequestedPsg[k][2]].fname)
              /\ (fnames[k][3] = None)
                     <=> (PsgRows[RequestedPsg[k][2]].Split # "training")

\* C1 witness: two subjects requested against the table order, one with a
\* training and one with a test recording
C1_Witness ==
    /\ fpc = "returned"
    /\ Len(subjects) = 2
    /\ subjects[1] > subjects[2]
    /\ Len(fnames) >= 2
    /\ \E k \in DOMAIN fnames : fnames[k][3] = None
    /\ \E k \in DOMAIN fnames : fnames[k][3] # None

RecordOfPath(path) == Basename(SplitextRoot(path))

\* C8 (as claimed): in every returned triple the header file and the arousal
\* file belong to the same record as the PSG file.
C8_TripleOfOneRecord ==
    fpc = "returned" =>
        \A k \in DOMAIN fnames :
            /\ RecordOfPath(fnames[k][2]) = RecordOfPath(fnames[k][1])
            /\ fnames[k][3] # None =>
                   RecordOfPath(fnames[k][3]) = RecordOfPath(fnames[k][1])

(***************************************************************************)
(* Properties of PC18                                                      *)
(***************************************************************************)
ArgOf(kind) == [kind |-> kind, ids |-> <<>>]

\* C4: 'test' selects exactly the subjects 0..988, 'training' exactly
\* 989..1982 and None 0..1982, each in increasing order; the test and the
\* training selection are disjoint and together are the None selection; an
\* explicit list is kept, and fetch_pc18_data is called with the selection.
C4_SubjectSelector ==
    /\ ppc \in {"resolved", "fetched", "failed"} =>
          /\ subject_ids_arg.kind = "test" =>
                subject_ids = [i \in 1..989 |-> i - 1]
          /\ subject_ids_arg.kind = "training" =>
                subject_ids = [i \in 1..994 |-> 988 + i]
          /\ subject_ids_arg.kind = "None" =>
                subject_ids = [i \in 1..1983 |-> i - 1]
          /\ subject_ids_arg.kind = "list" => subject_ids = subject_ids_arg.ids
    /\ ppc \in {"fetched", "failed"} => fetch_arg = subject_ids
    /\ ppc = "resolved" =>
          LET te == Range(ResolveSubjectIds(ArgOf("test")))
              tr == Range(ResolveSubjectIds(ArgOf("training")))
              all == Range(ResolveSubjectIds(ArgOf("None")))
          IN  /\ te = 0..988
              /\ tr = 989..1982
              /\ te \cap tr = {}
              /\ te \cup tr = all

\* C4 witness: the 'test' selection was resolved and fetched, and the files
\* of subject 988 were found
C4_Witness ==
    /\ ppc = "fetched"
    /\ subject_ids_arg.kind = "test"
    /\ paths # <<>>

OwnerOf(rec) == (CHOOSE k \in DOMAIN info_df : info_df[k].Record = rec) - 1

\* C5 (as claimed): one dataset per requested subject, in the requested
\* order, and the 'subject' of each description is the subject that owns the
\* record the dataset was loaded from.  Stated of the constructions that
\* loaded at least one dataset.
C5_SubjectOwnsRecord ==
    (ppc = "done" /\ all_base_ds # <<>>) =>
        /\ Len(all_base_ds) = Len(subject_ids)
        /\ \A i \in DOMAIN all_base_ds :
              /\ i \in DOMAIN subject_ids
              /\ all_base_ds[i].description.subject = subject_ids[i]
              /\ all_base_ds[i].description.subject
                     = OwnerOf(all_base_ds[i].description.record)

IsPrefix(a, b) == Len(a) <= Len(b) /\ SubSeq(b, 1, Len(a)) = a

\* the steps a _load_raw call goes through, by the claim
ClaimedSteps(t) ==
    <<"read">>
        \o (IF t.arousal_fname # None THEN <<"annotate">> ELSE <<>>)
        \o <<"describe">>
        \o (IF preproc THEN <<"preprocess">> ELSE <<>>)
        \o <<"wrap">>
        \o (IF windower THEN <<"window">> ELSE <<>>)

\* C6: no record is read before the selection is resolved and the fetch has
\* returned, and every _load_raw call goes through read, annotate (only with
\* an arousal file), describe, preprocess (only when given), wrap, window
\* (only when given) in this order, each at most once.
C6_LinearLoading ==
    \A i \in DOMAIN tasks :
        /\ IsPrefix(tasks[i].log, ClaimedSteps(tasks[i]))
        /\ tasks[i].pos = "returned" => tasks[i].log = ClaimedSteps(tasks[i])
        /\ Started(tasks[i]) =>
              /\ ppc \in {"loading", "done"}
              /\ fetch_arg = subject_ids
              /\ i \in DOMAIN paths
              /\ tasks[i].raw_fname = paths[i][1]

\* C6 witness: a call that went through all six steps
C6_Witness ==
    \E i \in DOMAIN tasks :
        /\ tasks[i].pos = "returned"
        /\ Len(tasks[i].log) = 6
        /\ tasks[i].out.windowed
        /\ tasks[i].out.preprocessed

\* what one _load_raw call returns
LoadRawResult(subject_id, p) ==
    [record |-> SplitextRoot(p[1]),
     annotations |-> IF p[3] # None THEN SplitextRoot(p[1]) \o <<".", "arousal">> ELSE None,
     preprocessed |-> preproc,
     description |-> DescOf(info_df, subject_id, p[1]),
     wrapped |-> TRUE,
     windowed |-> windower]

\* what the list comprehension of lines 244-247 collects
SequentialDatasets ==
    [i \in DOMAIN Zip(subject_ids, paths) |->
        LoadRawResult(Zip(subject_ids, paths)[i][1], Zip(subject_ids, paths)[i][2])]

\* C7: whatever n_jobs is and in whatever order the calls finish, the
\* collected list is the list sequential loading collects, and info_df is
\* not written while the calls run.
C7_ParallelAsSequential ==
    /\ [](ppc = "done" => all_base_ds = SequentialDatasets)
    /\ [][ppc = "loading" => info_df' = info_df]_vars

\* C7 witness: two workers, the second call finished first, and the two
\* datasets differ
C7_Witness ==
    /\ ppc = "done"
    /\ n_jobs = 2
    /\ finished = <<2, 1>>
    /\ all_base_ds[1] # all_base_ds[2]

====
